---------------------------- MODULE Spec2Model ----------------------------
(***************************************************************************)
(* The logbook solver (apps/solver-python/logbook_solver): one solve, from *)
(* the input document to the output document (Spec), and a second solve on *)
(* the input tightened to the schedule of the first (RoundTripSpec).       *)
(*                                                                         *)
(* A dict of the source is a TLA+ record whose DOMAIN holds exactly the    *)
(* keys that are present; d.get(k, dflt) is Get(d, k, dflt).  A decision   *)
(* variable x[(crew_id, slot, role)] is the key <<crew_id, slot, role>>;   *)
(* the CP model is the set of linear constraints attached with m.Add; the  *)
(* external CP-SAT engine returns any 0/1 valuation of the keys that       *)
(* satisfies all of them (a valuation is the set of keys valued 1).        *)
(***************************************************************************)
EXTENDS Integers, Sequences, FiniteSets, TLC

VARIABLES
    data,            \* the input document (json.load), never modified
    pc,              \* position in main()/__init__()/solve()
    hasPreferences,  \* whether the solver object carries a `preferences` attribute
    slot_minutes,    \* solver.slot_minutes
    register_window, \* solver.register_window
    roles,           \* solver.roles
    x,               \* solver.x, the keys of the decision variables
    cons,            \* the linear constraints of solver.model
    switches,        \* the auxiliary switch/gap variables of the objective builder
    engine,          \* the CpSolver after Solve(): status, values, time budget
    realised,        \* the schedule of an earlier solve that the input was tightened to
    result           \* the output document

vars == <<data, pc, hasPreferences, slot_minutes, register_window, roles, x,
          cons, switches, engine, realised, result>>

(***************************************************************************)
(* Bounds of the model.                                                    *)
(***************************************************************************)
MaxRequired == 2        \* required head counts range over 0..MaxRequired
MaxRequiredHours == 1   \* requiredHours range over 0..MaxRequiredHours

(***************************************************************************)
(* Program constants.                                                      *)
(***************************************************************************)
DayMinutes == 1440
HourMinutes == 60
DefaultSlotMinutes == 30
DefaultMinShiftMinutesForBreak == 360
DefaultBreakStartOffset == 180
DefaultBreakEndOffset == 270

DefaultUniversalRoles == {"REGISTER", "PRODUCT", "PARKING_HELM", "MEAL_BREAK"}

(***************************************************************************)
(* Generic helpers.                                                        *)
(***************************************************************************)
Has(d, k) == k \in DOMAIN d

Get(d, k, dflt) == IF k \in DOMAIN d THEN d[k] ELSE dflt

Min(a, b) == IF a <= b THEN a ELSE b

Max(a, b) == IF a >= b THEN a ELSE b

\* math.ceil(a / b) for b > 0
CeilDiv(a, b) == -((-a) \div b)

\* range(a, b)
Range(a, b) == {i \in a .. (b - 1) : TRUE}

SeqRange(s) == {s[i] : i \in 1 .. Len(s)}

EmptyDoc == [e \in {} |-> 0]

(***************************************************************************)
(* core.py: the fields read from the input document.                       *)
(***************************************************************************)
store == Get(data, "store", EmptyDoc)

crew == data.crew

hourly_requirements == Get(data, "hourlyRequirements", <<>>)

crew_role_requirements == Get(data, "crewRoleRequirements", <<>>)

coverage_windows == Get(data, "coverageWindows", <<>>)

role_metadata == Get(data, "roleMetadata", <<>>)

\* _sanitize_slot_minutes: value = int(slot_minutes) if slot_minutes else 30
SlotMinutesValue(v) == IF v = 0 THEN DefaultSlotMinutes ELSE v

\* _sanitize_slot_minutes raises ValueError
SlotMinutesRejected(v) ==
    LET value == SlotMinutesValue(v)
    IN  IF value <= 0 THEN TRUE ELSE HourMinutes % value # 0

num_slots == DayMinutes \div slot_minutes

slots_per_hour == HourMinutes \div slot_minutes

open_minutes == Get(store, "openMinutesFromMidnight", 0)

close_minutes == Get(store, "closeMinutesFromMidnight", DayMinutes)

\* __init__: the register sub-window, clamped to the store hours
RegisterWindow(m) ==
    LET rs0 == Get(store, "startRegHour", open_minutes)
        re0 == Get(store, "endRegHour", close_minutes)
        rs  == Min(Max(open_minutes, rs0), close_minutes)
        re1 == Min(Max(open_minutes, re0), close_minutes)
        re  == IF re1 <= rs THEN Min(close_minutes, rs + m) ELSE re1
    IN  <<rs, re>>

\* role_meta_map: the last metadata entry of a role wins; a role without an
\* entry maps to no document (role_meta_map.get(role) is None)
HasMeta(role) == \E i \in 1 .. Len(role_metadata) :
                    Has(role_metadata[i], "role") /\ role_metadata[i].role = role

RoleMeta(role) ==
    IF HasMeta(role)
    THEN LET i == CHOOSE j \in 1 .. Len(role_metadata) :
                    /\ Has(role_metadata[j], "role")
                    /\ role_metadata[j].role = role
                    /\ \A l \in (j + 1) .. Len(role_metadata) :
                          ~(Has(role_metadata[l], "role") /\ role_metadata[l].role = role)
         IN  role_metadata[i]
    ELSE EmptyDoc

\* the keys of role_meta_map, in insertion order (the first entry of each role)
MetaRoles ==
    LET first(i) == /\ Has(role_metadata[i], "role")
                    /\ \A j \in 1 .. (i - 1) :
                          ~(Has(role_metadata[j], "role")
                            /\ role_metadata[j].role = role_metadata[i].role)
        idx == {i \in 1 .. Len(role_metadata) : first(i)}
        RECURSIVE build(_)
        build(i) == IF i > Len(role_metadata) THEN <<>>
                    ELSE IF i \in idx THEN <<role_metadata[i].role>> \o build(i + 1)
                    ELSE build(i + 1)
    IN  build(1)

crew_ids == [i \in 1 .. Len(crew) |-> crew[i].id]

\* crew_by_id[crew_id]
CrewById(id) == crew[CHOOSE i \in 1 .. Len(crew) :
                        crew[i].id = id
                        /\ \A j \in (i + 1) .. Len(crew) : crew[j].id # id]

\* _crew_roles: eligibleRoles when non-empty (the legacy `roles` list is not
\* part of the modelled inputs)
CrewRoles(c) == Get(c, "eligibleRoles", {})

\* _index_roles
IndexedRoles == UNION {CrewRoles(crew[i]) : i \in 1 .. Len(crew)} \cup DefaultUniversalRoles

IsUniversalRole(role) ==
    IF HasMeta(role) /\ Has(RoleMeta(role), "isUniversal")
    THEN RoleMeta(role).isUniversal
    ELSE role \in DefaultUniversalRoles

\* _break_roles: the flagged roles in role_meta_map order, or ['MEAL_BREAK']
BreakRoles ==
    LET flagged == SelectSeq(MetaRoles, LAMBDA r : Get(RoleMeta(r), "isBreakRole", FALSE))
    IN  IF flagged # <<>> THEN flagged ELSE <<"MEAL_BREAK">>

\* _parking_roles: the flagged roles in role_meta_map order, or ['PARKING_HELM']
ParkingRoles ==
    LET flagged == SelectSeq(MetaRoles, LAMBDA r : Get(RoleMeta(r), "isParkingRole", FALSE))
    IN  IF flagged # <<>> THEN flagged ELSE <<"PARKING_HELM">>

IsBreakRole(role) ==
    IF HasMeta(role) /\ Has(RoleMeta(role), "isBreakRole")
    THEN RoleMeta(role).isBreakRole
    ELSE role = "MEAL_BREAK"

IsParkingRole(role) ==
    IF HasMeta(role) /\ Has(RoleMeta(role), "isParkingRole")
    THEN RoleMeta(role).isParkingRole
    ELSE role = "PARKING_HELM"

IsRegisterRole(role) == role = "REGISTER"

RoleAllowsOutsideHours(role) == Get(RoleMeta(role), "allowOutsideStoreHours", FALSE)

SlotStartMinute(slot) == slot * slot_minutes

SlotInsideStoreHours(slot) ==
    open_minutes <= SlotStartMinute(slot) /\ SlotStartMinute(slot) < close_minutes

SlotInsideRegisterWindow(slot) ==
    register_window[1] <= SlotStartMinute(slot) /\ SlotStartMinute(slot) < register_window[2]

MinutesToSlotFloor(minutes) == Max(0, minutes \div slot_minutes)

MinutesToSlotCeil(minutes) == Max(0, CeilDiv(minutes, slot_minutes))

\* _hour_slots
HourSlots(hour) ==
    Range(hour * slots_per_hour, Min(hour * slots_per_hour + slots_per_hour, num_slots))

SlotToHourIndex(slot) == slot \div slots_per_hour

\* _store_break_policy
MinShiftMinutesForBreak == Get(store, "minShiftMinutesForBreak", DefaultMinShiftMinutesForBreak)

BreakStartOffsetMinutes == Get(store, "breakWindowStartOffsetMinutes", DefaultBreakStartOffset)

BreakEndOffsetMinutes == Get(store, "breakWindowEndOffsetMinutes", DefaultBreakEndOffset)

MinShiftSlotsForBreak == Max(1, CeilDiv(MinShiftMinutesForBreak, slot_minutes))

\* _break_window_for_shift: <<earliest, latest>>
BreakWindowForShift(shift_start_slot, shift_end_slot) ==
    LET start_offset_slots == Max(0, BreakStartOffsetMinutes \div slot_minutes)
        end_offset_slots == Max(start_offset_slots, BreakEndOffsetMinutes \div slot_minutes)
        earliest == shift_start_slot + start_offset_slots
        latest == Min(shift_start_slot + end_offset_slots, shift_end_slot - 1)
    IN  <<earliest, Max(earliest, latest)>>

(***************************************************************************)
(* core.py: _build_decision_variables.                                     *)
(***************************************************************************)
\* the shift window in which variables are created: floor of the start, ceil
\* of the end, clamped to the day
BuilderShiftStartSlot(c) == MinutesToSlotFloor(Get(c, "shiftStartMin", 0))

BuilderShiftEndSlot(c) ==
    Min(MinutesToSlotCeil(Get(c, "shiftEndMin", DayMinutes)), num_slots)

LegalTriple(c, slot, role) ==
    /\ IsUniversalRole(role) \/ role \in CrewRoles(c)
    /\ SlotInsideStoreHours(slot) \/ RoleAllowsOutsideHours(role)
    /\ ~(IsRegisterRole(role) /\ ~SlotInsideRegisterWindow(slot))

DecisionVariables ==
    UNION {{k \in {<<crew[i].id, slot, role>> :
                       slot \in Range(BuilderShiftStartSlot(crew[i]),
                                      BuilderShiftEndSlot(crew[i])),
                       role \in roles} :
                LegalTriple(crew[i], k[2], k[3])} : i \in 1 .. Len(crew)}

(***************************************************************************)
(* constraints.py.  A constraint m.Add(sum(pos) - sum(neg) <op> rhs) is    *)
(* the record [pos, neg, op, rhs]; no error is the message <<>>.           *)
(***************************************************************************)
Lin(pos, op, rhs) == [pos |-> pos, neg |-> {}, op |-> op, rhs |-> rhs]

\* m.Add(var == first)
Same(var, first) == [pos |-> {var}, neg |-> {first}, op |-> "eq", rhs |-> 0]

NoError == <<>>

\* the shift window the constraint families use: crew['shiftStartMin'] //
\* slot_minutes and crew['shiftEndMin'] // slot_minutes
ShiftStartSlot(c) == c.shiftStartMin \div slot_minutes

ShiftEndSlot(c) == c.shiftEndMin \div slot_minutes

ShiftSlots(c) == Range(ShiftStartSlot(c), ShiftEndSlot(c))

CrewSet == {crew[i] : i \in 1 .. Len(crew)}

\* the variables of a crew in a slot, of a role in a slot, of a crew on a role
VarsOfCrewSlot(id, slot) == {k \in x : k[1] = id /\ k[2] = slot}

VarsOfSlotRole(slot, role) == {k \in x : k[2] = slot /\ k[3] = role /\ k[1] \in SeqRange(crew_ids)}

VarsOfCrewRole(id, role) == {k \in x : k[1] = id /\ k[3] = role /\ k[2] \in Range(0, num_slots)}

\* _one_task_per_slot
OneTaskPerSlot ==
    {Lin(VarsOfCrewSlot(c.id, slot), "eq", 1) :
        <<c, slot>> \in {cs \in CrewSet \X Range(0, num_slots) :
                            /\ cs[2] \in ShiftSlots(cs[1])
                            /\ VarsOfCrewSlot(cs[1].id, cs[2]) # {}}}

\* _store_hours
StoreHours ==
    IF ~Has(store, "openMinutesFromMidnight") \/ ~Has(store, "closeMinutesFromMidnight")
    THEN {}
    ELSE LET open_slot == store.openMinutesFromMidnight \div slot_minutes
             close_slot == store.closeMinutesFromMidnight \div slot_minutes
         IN  {Lin({k}, "eq", 0) :
                k \in {k \in x : /\ \E c \in CrewSet : c.id = k[1] /\ k[2] \in ShiftSlots(c)
                                 /\ k[2] < open_slot \/ k[2] >= close_slot
                                 /\ k[3] \in roles
                                 /\ ~Get(RoleMeta(k[3]), "allowOutsideStoreHours", FALSE)}}

\* _hourly_staffing_requirements: the (requirement, role) pairs it enforces,
\* in the order of the code
HourlyRoleFields ==
    <<[field |-> "requiredRegister", role |-> "REGISTER"],
      [field |-> "requiredProduct", role |-> "PRODUCT"],
      [field |-> "requiredParkingHelm", role |-> "PARKING_HELM"]>>

HourlyDemands ==
    {[i |-> i, j |-> j, hour |-> hourly_requirements[i].hour,
      role |-> HourlyRoleFields[j].role,
      required |-> Get(hourly_requirements[i], HourlyRoleFields[j].field, 0)] :
        i \in 1 .. Len(hourly_requirements), j \in 1 .. 3}

ActiveHourlyDemands == {d \in HourlyDemands : d.required > 0}

\* the slots _enforce_hourly_role walks for a demand
EnforcedHourSlots(d) ==
    Range(d.hour * slots_per_hour, Min(d.hour * slots_per_hour + slots_per_hour, num_slots))

\* _enforce_hourly_role with a lower bound in place of the equality
EnforceHourlyRoleAtLeast(d) ==
    {Lin(VarsOfSlotRole(slot, d.role), "ge", d.required) : slot \in EnforcedHourSlots(d)}

\* _enforce_hourly_role
EnforceHourlyRole(d) ==
    {Lin(VarsOfSlotRole(slot, d.role), "eq", d.required) : slot \in EnforcedHourSlots(d)}

HourlyStaffingRequirements == UNION {EnforceHourlyRole(d) : d \in ActiveHourlyDemands}

\* the first ValueError of _enforce_hourly_role
HourlyFailures ==
    {[i |-> d.i, j |-> d.j, slot |-> slot, role |-> d.role, required |-> d.required] :
        <<d, slot>> \in {ds \in ActiveHourlyDemands \X Range(0, num_slots) :
                            /\ ds[2] \in EnforcedHourSlots(ds[1])
                            /\ VarsOfSlotRole(ds[2], ds[1].role) = {}}}

HourlyError ==
    IF HourlyFailures = {} THEN NoError
    ELSE LET f == CHOOSE f \in HourlyFailures : \A g \in HourlyFailures :
                     \/ f.i < g.i
                     \/ f.i = g.i /\ f.j < g.j
                     \/ f.i = g.i /\ f.j = g.j /\ f.slot <= g.slot
         IN  <<"hourly: no crew can be assigned", f.slot, f.role, f.required>>

\* _parking_first_hour
ParkingFirstHour ==
    {Lin({k}, "eq", 0) :
        k \in {k \in x : /\ k[3] \in SeqRange(ParkingRoles)
                         /\ \E c \in CrewSet :
                              /\ c.id = k[1]
                              /\ k[2] \in Range(ShiftStartSlot(c),
                                                Min(ShiftStartSlot(c) + slots_per_hour,
                                                    ShiftEndSlot(c)))}}

\* required_slots without the conversion of hours to slots
RequiredSlotsAsHours(req) == req.requiredHours \div Get(req, "requiredHoursPer", 1)

\* _crew_role_requirements: required_slots = required_hours * slots_per_hour.
\* A requiredHours that is not a whole number is the fraction
\* requiredHours / requiredHoursPer.
RequiredSlots(req) ==
    (req.requiredHours * (HourMinutes \div slot_minutes)) \div Get(req, "requiredHoursPer", 1)

CrewRoleRequirements ==
    {Lin(VarsOfCrewRole(req.crewId, req.role), "eq", RequiredSlots(req)) :
        req \in {r \in SeqRange(crew_role_requirements) : RequiredSlots(r) > 0}}

CrewRoleError ==
    LET bad == {i \in 1 .. Len(crew_role_requirements) :
                    /\ RequiredSlots(crew_role_requirements[i]) > 0
                    /\ VarsOfCrewRole(crew_role_requirements[i].crewId,
                                      crew_role_requirements[i].role) = {}}
    IN  IF bad = {} THEN NoError
        ELSE LET i == CHOOSE i \in bad : \A j \in bad : i <= j
             IN  <<"crew requirement: no available slots",
                   crew_role_requirements[i].crewId, crew_role_requirements[i].role,
                   crew_role_requirements[i].requiredHours>>

\* _coverage_windows: the slots of a window
WindowSlots(w) == UNION {HourSlots(h) : h \in Range(w.startHour, w.endHour)}

\* _coverage_windows with a lower bound in place of the equality
CoverageWindowsAtLeast ==
    UNION {{Lin(VarsOfSlotRole(slot, w.role), "ge", w.requiredPerHour) :
                slot \in WindowSlots(w)} : w \in SeqRange(coverage_windows)}

CoverageWindows ==
    UNION {{Lin(VarsOfSlotRole(slot, w.role), "eq", w.requiredPerHour) :
                slot \in WindowSlots(w)} : w \in SeqRange(coverage_windows)}

CoverageError ==
    LET bad == {<<i, slot>> \in (1 .. Len(coverage_windows)) \X Range(0, num_slots) :
                    /\ slot \in WindowSlots(coverage_windows[i])
                    /\ coverage_windows[i].requiredPerHour > 0
                    /\ VarsOfSlotRole(slot, coverage_windows[i].role) = {}}
    IN  IF bad = {} THEN NoError
        ELSE LET f == CHOOSE f \in bad : \A g \in bad :
                         f[1] < g[1] \/ (f[1] = g[1] /\ f[2] <= g[2])
             IN  <<"coverage window: no crew can be assigned",
                   coverage_windows[f[1]].role, f[2], coverage_windows[f[1]].requiredPerHour>>

\* _minutes_to_slots; an absent bound (None) is the empty set, a bound n is {n}
MinutesToSlots(meta, key, rounding) ==
    IF ~Has(meta, key) THEN {}
    ELSE IF rounding = "ceil" THEN {CeilDiv(meta[key], slot_minutes)}
    ELSE {meta[key] \div slot_minutes}

RoleMinSlots(role) ==
    IF Has(RoleMeta(role), "minSlots") THEN {RoleMeta(role).minSlots}
    ELSE MinutesToSlots(RoleMeta(role), "minMinutesPerCrew", "ceil")

RoleMaxSlots(role) ==
    IF Has(RoleMeta(role), "maxSlots") THEN {RoleMeta(role).maxSlots}
    ELSE MinutesToSlots(RoleMeta(role), "maxMinutesPerCrew", "floor")

\* the legacy register overrides of a crew member: ceil and floor of
\* hours * slots_per_hour.  Hours that are not a whole number are the
\* fraction minRegisterHours / minRegisterHoursPer (and likewise for max).
CrewMinSlots(c, role) ==
    IF role = "REGISTER" /\ Has(c, "minRegisterHours") /\ c.minRegisterHours > 0
    THEN {CeilDiv(c.minRegisterHours * (HourMinutes \div slot_minutes),
                  Get(c, "minRegisterHoursPer", 1))}
    ELSE {}

CrewMaxSlots(c, role) ==
    IF role = "REGISTER" /\ Has(c, "maxRegisterHours") /\ c.maxRegisterHours >= 0
    THEN {(c.maxRegisterHours * (HourMinutes \div slot_minutes))
              \div Get(c, "maxRegisterHoursPer", 1)}
    ELSE {}

\* _max_defined_slot_requirement, _min_defined_slot_requirement
MaxDefined(S) == IF S = {} THEN {} ELSE {CHOOSE v \in S : \A w \in S : v >= w}

MinDefined(S) == IF S = {} THEN {} ELSE {CHOOSE v \in S : \A w \in S : v <= w}

\* _role_min_max without the minima
RoleMaxOnly ==
    UNION {LET role == rc[1]
               c == rc[2]
               role_vars == VarsOfCrewRole(c.id, role)
               emax == MinDefined(CrewMaxSlots(c, role) \cup RoleMaxSlots(role))
           IN  {Lin(role_vars, "le", Min(v, Cardinality(role_vars))) : v \in emax} :
           rc \in {rc \in roles \X CrewSet :
                     ~IsBreakRole(rc[1]) /\ VarsOfCrewRole(rc[2].id, rc[1]) # {}}}

\* _role_min_max
RoleMinMax ==
    UNION {LET role == rc[1]
               c == rc[2]
               role_vars == VarsOfCrewRole(c.id, role)
               total == Cardinality(role_vars)
               emin == MaxDefined(CrewMinSlots(c, role) \cup RoleMinSlots(role))
               emax == MinDefined(CrewMaxSlots(c, role) \cup RoleMaxSlots(role))
           IN  {Lin(role_vars, "ge", Min(v, total)) : v \in emin}
               \cup {Lin(role_vars, "le", Min(v, total)) : v \in emax} :
           rc \in {rc \in roles \X CrewSet :
                     /\ ~IsBreakRole(rc[1])
                     /\ ~(RoleMinSlots(rc[1]) = {} /\ RoleMaxSlots(rc[1]) = {}
                          /\ rc[1] # "REGISTER")
                     /\ VarsOfCrewRole(rc[2].id, rc[1]) # {}}}

\* _meal_breaks: the break roles it finds, and the one it uses
ActiveBreakRoles == SelectSeq(BreakRoles, LAMBDA r : r \in roles)

\* the crew members that must take a break
MustBreak(c) ==
    /\ Get(c, "canBreak", TRUE)
    /\ ShiftEndSlot(c) - ShiftStartSlot(c) >= MinShiftSlotsForBreak

\* the break window of _meal_breaks: <<earliest, latest>>
MealBreakWindow(c) ==
    LET w == BreakWindowForShift(ShiftStartSlot(c), ShiftEndSlot(c))
    IN  <<w[1], IF w[2] >= ShiftEndSlot(c) THEN ShiftEndSlot(c) - 1 ELSE w[2]>>

MealBreakVars(c, break_role) ==
    {k \in x : /\ k[1] = c.id /\ k[3] = break_role
               /\ k[2] \in MealBreakWindow(c)[1] .. MealBreakWindow(c)[2]}

MealBreaksOf(c, break_role) ==
    IF ~MustBreak(c)
    THEN {Lin({k}, "eq", 0) :
            k \in {k \in x : k[1] = c.id /\ k[3] = break_role /\ k[2] \in ShiftSlots(c)}}
    ELSE {Lin(MealBreakVars(c, break_role), "eq", 1)}
         \cup {Lin({k}, "eq", 0) :
                 k \in {k \in x : /\ k[1] = c.id /\ k[3] = break_role
                                  /\ k[2] \in ShiftSlots(c)
                                  /\ k[2] < MealBreakWindow(c)[1]
                                     \/ k[2] > MealBreakWindow(c)[2]}}

MealBreaks ==
    IF ActiveBreakRoles = <<>> THEN {}
    ELSE UNION {MealBreaksOf(c, ActiveBreakRoles[1]) : c \in CrewSet}

MealBreakError ==
    IF ActiveBreakRoles = <<>> THEN NoError
    ELSE LET bad == {i \in 1 .. Len(crew) :
                        /\ MustBreak(crew[i])
                        /\ \/ MealBreakWindow(crew[i])[1] > MealBreakWindow(crew[i])[2]
                           \/ MealBreakVars(crew[i], ActiveBreakRoles[1]) = {}}
         IN  IF bad = {} THEN NoError
             ELSE LET i == CHOOSE i \in bad : \A j \in bad : i <= j
                  IN  IF MealBreakWindow(crew[i])[1] > MealBreakWindow(crew[i])[2]
                      THEN <<"meal break: window leaves no valid slots", crew[i].id>>
                      ELSE <<"meal break: no assignment is possible", crew[i].id,
                             ActiveBreakRoles[1]>>

\* _block_size_snap: the first slots of the blocks of N slots of a shift
\* block starts at every slot of the shift
BlockStartsOverlapping(c, N) ==
    {s \in ShiftSlots(c) : s + N <= ShiftEndSlot(c)}

BlockStarts(c, N) ==
    {s \in ShiftSlots(c) : (s - ShiftStartSlot(c)) % N = 0 /\ s + N <= ShiftEndSlot(c)}

\* the variables of a block, and the equalities among them when it is full
BlockVars(c, role, s, N) == {k \in x : k[1] = c.id /\ k[3] = role /\ k[2] \in s .. (s + N - 1)}

BlockEqualities(c, role, s, N) ==
    IF Cardinality(BlockVars(c, role, s, N)) = N
    THEN {Same(<<c.id, s + o, role>>, <<c.id, s, role>>) : o \in 1 .. (N - 1)}
    ELSE {}

BlockSize(role) == Get(RoleMeta(role), "blockSize", 1)

BlockSizeSnap ==
    UNION {UNION {BlockEqualities(cr[1], cr[2], s, BlockSize(cr[2])) :
                    s \in BlockStarts(cr[1], BlockSize(cr[2]))} :
           cr \in {cr \in CrewSet \X roles : BlockSize(cr[2]) > 1}}

\* _consecutive_slots
ConsecutiveRoles ==
    {r \in SeqRange(MetaRoles) : Get(RoleMeta(r), "slotsMustBeConsecutive", FALSE)}

\* role_vars: the slots of the shift in which the crew has a variable of the role
RoleVarSlots(c, role) == {s \in ShiftSlots(c) : <<c.id, s, role>> \in x}

\* successive entries of role_vars that are not adjacent slots
GapPairs(c, role) ==
    {p \in RoleVarSlots(c, role) \X RoleVarSlots(c, role) :
        /\ p[1] < p[2]
        /\ \A s \in RoleVarSlots(c, role) : ~(p[1] < s /\ s < p[2])
        /\ p[2] # p[1] + 1}

ConsecutiveSlots ==
    UNION {{Lin({<<cr[1].id, p[1], cr[2]>>, <<cr[1].id, p[2], cr[2]>>}, "le", 1) :
                p \in GapPairs(cr[1], cr[2])} :
           cr \in {cr \in CrewSet \X (ConsecutiveRoles \cap roles) :
                     Cardinality(RoleVarSlots(cr[1], cr[2])) > 1}}

\* add_all_constraints: the first error raised, in the order of the families
ConstraintError ==
    IF HourlyError # NoError THEN HourlyError
    ELSE IF CrewRoleError # NoError THEN CrewRoleError
    ELSE IF CoverageError # NoError THEN CoverageError
    ELSE MealBreakError

AllConstraints ==
    OneTaskPerSlot \cup StoreHours \cup HourlyStaffingRequirements \cup ParkingFirstHour
    \cup CrewRoleRequirements \cup CoverageWindows \cup RoleMinMax \cup MealBreaks
    \cup BlockSizeSnap \cup ConsecutiveSlots

(***************************************************************************)
(* objective.py: the auxiliary variables and the inequalities add_objective*)
(* attaches to the model.  An auxiliary variable is the key                *)
(* <<kind, crew_id, slot, role>>.  The objective's terms are not modelled: *)
(* the engine below returns every solution of the constraints.             *)
(***************************************************************************)
\* solver.preferences, on an object that carries the attribute
preferences == Get(data, "preferences", <<>>)

\* _combine_weights, for integer weights; a null crewWeight is an absent key
CombineWeights(pref) ==
    LET base == Get(pref, "baseWeight", 0)
        boost == IF Get(pref, "adaptiveBoost", 1) = 0 THEN 1 ELSE Get(pref, "adaptiveBoost", 1)
    IN  IF Has(pref, "crewWeight") /\ pref.crewWeight <= 0 THEN 0
        ELSE IF base <= 0 /\ ~Has(pref, "crewWeight") THEN 0
        ELSE IF base <= 0 THEN pref.crewWeight * boost
        ELSE base * Get(pref, "crewWeight", 1) * boost

\* the adjacent slot pairs (slot, slot + 1) of a crew and role that both have a variable
AdjacentPairs(c, role) ==
    {s \in Range(ShiftStartSlot(c), ShiftEndSlot(c) - 1) :
        <<c.id, s, role>> \in x /\ <<c.id, s + 1, role>> \in x}

\* _consecutive_preference
ConsecutivePreferenceSwitches ==
    UNION {LET pref == preferences[i]
           IN  IF /\ pref.preferenceType = "CONSECUTIVE"
                  /\ Has(pref, "role")
                  /\ \E c \in CrewSet : c.id = pref.crewId
                  /\ CombineWeights(pref) > 0
                  /\ pref.role \in roles
               THEN {<<"switch", pref.crewId, s, pref.role>> :
                        s \in AdjacentPairs(CrewById(pref.crewId), pref.role)}
               ELSE {} : i \in 1 .. Len(preferences)}

\* _consecutive_role_penalty
ConsecutiveRolePenaltyGaps ==
    UNION {{<<"gap", cr[1].id, s, cr[2]>> : s \in AdjacentPairs(cr[1], cr[2])} :
           cr \in CrewSet \X {r \in SeqRange(MetaRoles) \cap roles :
                                Get(RoleMeta(r), "isConsecutive", FALSE)}}

ObjectiveAuxVars == ConsecutivePreferenceSwitches \cup ConsecutiveRolePenaltyGaps

\* the two inequalities with the auxiliary variable fixed to 0
SwitchForbidden(a) ==
    {[pos |-> {<<a[2], a[3] + 1, a[4]>>}, neg |-> {<<a[2], a[3], a[4]>>},
      op |-> "ge", rhs |-> 0],
     [pos |-> {<<a[2], a[3], a[4]>>}, neg |-> {<<a[2], a[3] + 1, a[4]>>},
      op |-> "ge", rhs |-> 0],
     [pos |-> {a}, neg |-> {}, op |-> "eq", rhs |-> 0]}

\* switch_var >= x_s - x_s1 and switch_var >= x_s1 - x_s
SwitchInequalities(a) ==
    {[pos |-> {a, <<a[2], a[3] + 1, a[4]>>}, neg |-> {<<a[2], a[3], a[4]>>},
      op |-> "ge", rhs |-> 0],
     [pos |-> {a, <<a[2], a[3], a[4]>>}, neg |-> {<<a[2], a[3] + 1, a[4]>>},
      op |-> "ge", rhs |-> 0]}

ObjectiveConstraints == UNION {SwitchInequalities(a) : a \in ObjectiveAuxVars}

(***************************************************************************)
(* The external CP-SAT engine: the valuations of the model's variables     *)
(* that satisfy every constraint.  A valuation is the set of the variables *)
(* valued 1.  Solutions is {v \in SUBSET AllVars : Satisfies(v)}, computed *)
(* crew by crew and slot by slot so that the constraints on one slot and   *)
(* on one crew member prune the enumeration early.                         *)
(***************************************************************************)
AllVars == x \cup switches

Holds(c, v) ==
    LET lhs == Cardinality(c.pos \cap v) - Cardinality(c.neg \cap v)
    IN  CASE c.op = "eq" -> lhs = c.rhs
          [] c.op = "le" -> lhs <= c.rhs
          [] c.op = "ge" -> lhs >= c.rhs

Satisfies(v) == \A c \in cons : Holds(c, v)

\* the valuations of the variables `keys` that satisfy the constraints over `keys` alone
ConsWithin(keys) == {c \in cons : (c.pos \cup c.neg) \subseteq keys}

RECURSIVE Product(_)
Product(parts) ==
    IF parts = {} THEN {{}}
    ELSE LET p == CHOOSE p \in parts : TRUE
         IN  {a \cup b : a \in p, b \in Product(parts \ {p})}

SlotValuations(id, slot) ==
    LET keys == {k \in x : k[1] = id /\ k[2] = slot}
        local == ConsWithin(keys)
    IN  {v \in SUBSET keys : \A c \in local : Holds(c, v)}

CrewValuations(id) ==
    LET keys == {k \in x : k[1] = id}
        local == ConsWithin(keys)
        parts == {SlotValuations(id, slot) : slot \in {k[2] : k \in keys}}
    IN  {v \in Product(parts) : \A c \in local : Holds(c, v)}

Solutions ==
    LET parts == {CrewValuations(id) : id \in {k[1] : k \in x}}
                 \cup {{{}, {a}} : a \in switches}
    IN  {v \in Product(parts) : Satisfies(v)}

(***************************************************************************)
(* diagnostics.py: detect_violations.  A violation string is the tuple of  *)
(* the diagnostic's name and the values the string is formatted from.      *)
(***************************************************************************)
\* the concatenation of the sequences parts[1], ..., parts[Len(parts)]
RECURSIVE Concat(_)
Concat(parts) ==
    IF parts = <<>> THEN <<>>
    ELSE Concat(SubSeq(parts, 1, Len(parts) - 1)) \o parts[Len(parts)]

\* the elements of a set of integers in ascending order
RECURSIVE Ascending(_)
Ascending(S) ==
    IF S = {} THEN <<>>
    ELSE LET lo == CHOOSE a \in S : \A b \in S : a <= b
         IN  <<lo>> \o Ascending(S \ {lo})

CandidateCount(slot, role) == Cardinality(VarsOfSlotRole(slot, role))

\* _append_if_insufficient with available <= required
AppendIfNotAbove(hour, role, required) ==
    IF HourSlots(hour) = {} THEN <<>>
    ELSE LET available == CHOOSE a \in {CandidateCount(s, role) : s \in HourSlots(hour)} :
                              \A s \in HourSlots(hour) : a <= CandidateCount(s, role)
         IN  IF available <= required
             THEN <<<<"hourly", hour, role, required, available>>>>
             ELSE <<>>

\* _append_if_insufficient
AppendIfInsufficient(hour, role, required) ==
    IF HourSlots(hour) = {} THEN <<>>
    ELSE LET available == CHOOSE a \in {CandidateCount(s, role) : s \in HourSlots(hour)} :
                              \A s \in HourSlots(hour) : a <= CandidateCount(s, role)
         IN  IF available < required
             THEN <<<<"hourly", hour, role, required, available>>>>
             ELSE <<>>

HourlyViolations ==
    LET one(i, j) ==
            LET req == hourly_requirements[i]
                f == HourlyRoleFields[j]
            IN  IF Get(req, f.field, 0) > 0
                THEN AppendIfInsufficient(req.hour, f.role, req[f.field])
                ELSE <<>>
        each(i) == one(i, 1) \o one(i, 2) \o one(i, 3)
    IN  Concat([n_ \in 1 .. Len(hourly_requirements) |-> each(n_)])

\* crew['name'] if crew else crew_id
CrewName(id) ==
    IF \E i \in 1 .. Len(crew) : crew[i].id = id THEN CrewById(id).name ELSE id

CrewRoleViolations ==
    LET each(i) ==
            LET req == crew_role_requirements[i]
                available == Cardinality(VarsOfCrewRole(req.crewId, req.role))
            IN  IF available < RequiredSlots(req)
                THEN <<<<"crew hours", CrewName(req.crewId), req.role, req.requiredHours,
                         RequiredSlots(req), available>>>>
                ELSE <<>>
    IN  Concat([n_ \in 1 .. Len(crew_role_requirements) |-> each(n_)])

CoverageViolations ==
    LET each(i) ==
            LET w == coverage_windows[i]
                ss == Ascending(WindowSlots(w))
                slot(n) == IF CandidateCount(ss[n], w.role) < w.requiredPerHour
                           THEN <<<<"coverage", w.role, SlotToHourIndex(ss[n]), ss[n],
                                    w.requiredPerHour, CandidateCount(ss[n], w.role)>>>>
                           ELSE <<>>
            IN  Concat([n_ \in 1 .. Len(ss) |-> slot(n_)])
    IN  Concat([n_ \in 1 .. Len(coverage_windows) |-> each(n_)])

MealBreakViolations ==
    IF ActiveBreakRoles = <<>> THEN <<>>
    ELSE LET each(i) ==
                LET c == crew[i]
                    w == BreakWindowForShift(ShiftStartSlot(c), ShiftEndSlot(c))
                    latest == Min(w[2], ShiftEndSlot(c) - 1)
                IN  IF /\ MustBreak(c)
                       /\ ~\E s \in w[1] .. latest : <<c.id, s, ActiveBreakRoles[1]>> \in x
                    THEN <<<<"meal break", c.id, w[1], latest>>>>
                    ELSE <<>>
         IN  Concat([n_ \in 1 .. Len(crew) |-> each(n_)])

GenericViolation == <<"Model is infeasible but specific violations could not be determined">>

\* detect_violations without the fallback message
DetectViolationsFound ==
    HourlyViolations \o CrewRoleViolations \o CoverageViolations \o MealBreakViolations

DetectViolations ==
    LET found == HourlyViolations \o CrewRoleViolations \o CoverageViolations
                 \o MealBreakViolations
    IN  IF found # <<>> THEN found ELSE <<GenericViolation>>

(***************************************************************************)
(* core.py: solve(), the output documents.                                 *)
(***************************************************************************)
\* the assignment records with the adjacent slots of a crew member on one
\* role merged into one record
AssignmentsMerged(v) ==
    LET on == v \cap x
        RunEnd(k) == CHOOSE j \in k[2] .. num_slots :
                        /\ \A i \in k[2] .. j : <<k[1], i, k[3]>> \in on
                        /\ <<k[1], j + 1, k[3]>> \notin on
    IN  {[crewId |-> k[1], taskType |-> k[3], startTime |-> k[2] * slot_minutes,
          endTime |-> (RunEnd(k) + 1) * slot_minutes] :
            k \in {k \in on : <<k[1], k[2] - 1, k[3]>> \notin on}}

\* the assignment records of the variables x valued 1
Assignments(v) ==
    {[crewId |-> k[1], taskType |-> k[3], startTime |-> k[2] * slot_minutes,
      endTime |-> (k[2] + 1) * slot_minutes] : k \in v \cap x}

\* _status_to_string
StatusToString(status) ==
    CASE status = "OPTIMAL" -> "OPTIMAL"
      [] status = "FEASIBLE" -> "FEASIBLE"
      [] status = "INFEASIBLE" -> "INFEASIBLE"
      [] status = "MODEL_INVALID" -> "ERROR"
      [] status = "UNKNOWN" -> "TIME_LIMIT"
      [] OTHER -> "ERROR"

SolveResult(status, v) ==
    [success |-> status \in {"OPTIMAL", "FEASIBLE"},
     status |-> StatusToString(status),
     numAssignments |-> IF status \in {"OPTIMAL", "FEASIBLE"}
                        THEN Cardinality(v \cap x) ELSE 0,
     violations |-> IF status = "INFEASIBLE" THEN DetectViolations ELSE <<>>,
     assignments |-> IF status \in {"OPTIMAL", "FEASIBLE"} THEN Assignments(v) ELSE {}]

\* main(): the error document of the CLI safety net
ErrorResult(message) ==
    [success |-> FALSE, status |-> "ERROR", numAssignments |-> 0,
     violations |-> <<message>>, error |-> message]

NoResult == [status |-> "NONE"]

\* no earlier solve
NoSchedule == [tightened |-> FALSE, values |-> {}]

\* the CpSolver before Solve() is called
NotCalled == [status |-> "NONE", values |-> {}, expired |-> FALSE]

(***************************************************************************)
(* The input documents of the model: small stores around 09:00-11:00.      *)
(* Each family varies the fields one constraint family reads.              *)
(***************************************************************************)
Crew(id, start, end, eligible) ==
    [id |-> id, name |-> id, shiftStartMin |-> start, shiftEndMin |-> end,
     eligibleRoles |-> eligible]

Store(m) == [baseSlotMinutes |-> m]

NotUniversal(role) == [role |-> role, isUniversal |-> FALSE]

\* metadata that leaves PRODUCT as the only default universal role
OnlyProduct == <<NotUniversal("REGISTER"), NotUniversal("PARKING_HELM"),
                 NotUniversal("MEAL_BREAK")>>

Doc(st, cr, metas) == [date |-> "2025-11-22", store |-> st, crew |-> cr, roleMetadata |-> metas]

\* shifts on and off the slot grid, store hours on and off it
CoverInputs ==
    {Doc(Store(30) @@ hours,
         <<Crew("c1", start, end, {"ORDER_WRITER"})>>,
         OnlyProduct \o <<[role |-> "ORDER_WRITER", allowOutsideStoreHours |-> outside]>>) :
        start \in {510, 540}, end \in {600, 615},
        hours \in {EmptyDoc,
                   [openMinutesFromMidnight |-> 540, closeMinutesFromMidnight |-> 600],
                   [openMinutesFromMidnight |-> 540, closeMinutesFromMidnight |-> 615],
                   [openMinutesFromMidnight |-> 555, closeMinutesFromMidnight |-> 630],
                   [closeMinutesFromMidnight |-> 585]},
        outside \in BOOLEAN}

\* hourly demands for hour 9 with two crew members
DemandInputs ==
    {Doc(Store(m),
         <<Crew("c1", 540, 600, {}), Crew("c2", start2, start2 + 60, {})>>,
         <<NotUniversal("PARKING_HELM"), NotUniversal("MEAL_BREAK")>>)
       @@ [hourlyRequirements |-> <<[hour |-> 9, requiredRegister |-> q1,
                                     requiredProduct |-> q2]>>] :
        m \in {30, 60}, start2 \in {540, 570}, q1 \in 0 .. MaxRequired, q2 \in 0 .. MaxRequired}
    \cup
    {Doc(Store(30), <<Crew("c1", 540, 600, {})>>, OnlyProduct)
       @@ [hourlyRequirements |-> <<[hour |-> h, requiredProduct |-> 1,
                                     requiredParkingHelm |-> q]>>] :
        h \in {9, 10}, q \in 0 .. 1}

\* per-crew role hours
HoursInputs ==
    {Doc(Store(m), <<Crew("c1", 540, end, {"ORDER_WRITER"})>>, OnlyProduct)
       @@ [crewRoleRequirements |-> <<[crewId |-> "c1", role |-> role, requiredHours |-> h]>>] :
        m \in {30, 60}, end \in {570, 600, 630, 660}, role \in {"ORDER_WRITER", "DEMO"},
        h \in 0 .. MaxRequiredHours}

\* meal breaks: the break policy, canBreak, shifts on and off the grid
BreakInputs ==
    {Doc(Store(30) @@ [minShiftMinutesForBreak |-> minShift,
                       breakWindowStartOffsetMinutes |-> off[1],
                       breakWindowEndOffsetMinutes |-> off[2]],
         <<Crew("c1", 540, end, {}) @@ can>>,
         <<NotUniversal("REGISTER"), NotUniversal("PARKING_HELM")>> \o more) :
        minShift \in {60, 90}, off \in {<<0, 30>>, <<30, 30>>, <<60, 60>>},
        end \in {600, 615, 630}, can \in {EmptyDoc, [canBreak |-> FALSE]},
        more \in {<<>>, <<[role |-> "MEAL_BREAK", allowOutsideStoreHours |-> TRUE]>>}}

\* a role with slotsMustBeConsecutive, a role with blockSize
ShapeInputs ==
    {Doc(Store(30) @@ hours,
         <<Crew("c1", 540, end, {"ORDER_WRITER"})>>,
         OnlyProduct \o <<[role |-> "ORDER_WRITER"] @@ flag>>) @@ reqs :
        end \in {630, 660},
        hours \in {EmptyDoc,
                   [openMinutesFromMidnight |-> 570, closeMinutesFromMidnight |-> 1440]},
        flag \in {[slotsMustBeConsecutive |-> TRUE], [blockSize |-> 2],
                  [blockSize |-> 2, allowOutsideStoreHours |-> TRUE]},
        reqs \in {EmptyDoc,
                  [crewRoleRequirements |->
                     <<[crewId |-> "c1", role |-> "ORDER_WRITER", requiredHours |-> 1]>>]}}

\* coverage windows for DEMO with two eligible crew members
WindowInputs ==
    {Doc(Store(30),
         <<Crew("c1", 540, 660, {"DEMO"}), Crew("c2", 540, end2, {"DEMO"})>>,
         OnlyProduct)
       @@ [coverageWindows |-> <<[role |-> role, startHour |-> h, endHour |-> h + 1,
                                  requiredPerHour |-> q]>>] :
        end2 \in {600, 660}, role \in {"DEMO", "SAMPLES"}, h \in {9, 10},
        q \in 0 .. MaxRequired}

\* parking roles: the default one and a flagged one
ParkingInputs ==
    {Doc(Store(30),
         <<Crew("c1", 540, end, {"VALET"})>>,
         <<NotUniversal("REGISTER"), NotUniversal("MEAL_BREAK")>> \o valet) :
        end \in {585, 600, 630, 660},
        valet \in {<<>>, <<[role |-> "VALET", isParkingRole |-> TRUE]>>}}

\* slot lengths the constructor accepts and rejects, with and without a
\* CONSECUTIVE preference and an isConsecutive role
SlotInputs ==
    {Doc(Store(m), <<Crew("c1", 540, 600, {})>>,
         OnlyProduct \o <<[role |-> "PRODUCT"] @@ flag>>) @@ prefs :
        m \in {-30, 0, 7, 20, 45},
        flag \in {EmptyDoc, [isConsecutive |-> TRUE]},
        prefs \in {EmptyDoc,
                   [preferences |-> <<[crewId |-> "c1", preferenceType |-> "CONSECUTIVE",
                                       role |-> "PRODUCT", baseWeight |-> 10,
                                       crewWeight |-> 2]>>]}}

\* roles that only roleMetadata declares, or that a crew member also lists:
\* a universal role, a break role
RegistryInputs ==
    {Doc(Store(30) @@ policy,
         <<Crew("c1", 540, 600, eligible)>>,
         OnlyProduct \o <<meta>>) :
        policy \in {EmptyDoc,
                    [minShiftMinutesForBreak |-> 60, breakWindowStartOffsetMinutes |-> 0,
                     breakWindowEndOffsetMinutes |-> 30]},
        eligible \in {{}, {"GREETER"}, {"LUNCH"}},
        meta \in {[role |-> "GREETER", isUniversal |-> TRUE],
                  [role |-> "LUNCH", isBreakRole |-> TRUE]}}

\* minima and maxima per crew member and role: in slots, in minutes, and the
\* register overrides of a crew member in hours (whole and quarter hours)
MinMaxInputs ==
    {Doc(Store(30),
         <<Crew("c1", 540, 630, {"ORDER_WRITER"}) @@ override>>,
         <<NotUniversal("PARKING_HELM"), NotUniversal("MEAL_BREAK"),
           [role |-> "ORDER_WRITER"] @@ bounds>>) :
        bounds \in {[minSlots |-> 2], [maxSlots |-> 1], [minSlots |-> 1, maxSlots |-> 2],
                    [minSlots |-> 5], [minMinutesPerCrew |-> 45], [maxMinutesPerCrew |-> 45]},
        override \in {EmptyDoc, [minRegisterHours |-> 1],
                      [minRegisterHours |-> 1, minRegisterHoursPer |-> 4],
                      [maxRegisterHours |-> 3, maxRegisterHoursPer |-> 4]}}

\* break roles declared by roleMetadata next to the default MEAL_BREAK: one
\* or two flagged roles, listed by the crew member or by nobody, without and
\* with an hourly demand the single crew member cannot meet
BreakRegistryInputs ==
    {Doc(Store(30) @@ [minShiftMinutesForBreak |-> 60, breakWindowStartOffsetMinutes |-> 30,
                       breakWindowEndOffsetMinutes |-> 60],
         <<Crew("c1", 540, 630, eligible)>>,
         <<NotUniversal("REGISTER"), NotUniversal("PARKING_HELM")>> \o metas) @@ demand :
        eligible \in {{}, {"LUNCH"}, {"LUNCH", "REST"}},
        demand \in {EmptyDoc,
                    [hourlyRequirements |-> <<[hour |-> 9, requiredProduct |-> 2]>>]},
        metas \in {<<[role |-> "LUNCH", isBreakRole |-> TRUE]>>,
                   <<[role |-> "LUNCH", isBreakRole |-> TRUE],
                     [role |-> "REST", isBreakRole |-> TRUE]>>,
                   <<[role |-> "LUNCH", isBreakRole |-> TRUE],
                     [role |-> "MEAL_BREAK", isBreakRole |-> FALSE]>>}}

\* crew members that may and may not take the parking role
ParkingHelmInputs ==
    {Doc(Store(30),
         <<Crew("c1", 540, 660, {}) @@ helm>>,
         <<NotUniversal("REGISTER"), NotUniversal("MEAL_BREAK")>>) :
        helm \in {EmptyDoc, [canParkingHelms |-> TRUE], [canParkingHelms |-> FALSE]}}

\* a CONSECUTIVE preference and an isConsecutive flag on a role that shares
\* its slots with another role
PreferenceInputs ==
    {Doc(Store(30), <<Crew("c1", 540, 630, {"ORDER_WRITER"})>>,
         OnlyProduct \o <<[role |-> "ORDER_WRITER"] @@ flag>>) @@ prefs :
        flag \in {EmptyDoc, [isConsecutive |-> TRUE]},
        prefs \in {EmptyDoc,
                   [preferences |-> <<[crewId |-> "c1", preferenceType |-> "CONSECUTIVE",
                                       role |-> "ORDER_WRITER", baseWeight |-> 10,
                                       crewWeight |-> 2]>>]}}

Inputs == CoverInputs \cup DemandInputs \cup HoursInputs \cup BreakInputs
          \cup ShapeInputs \cup WindowInputs \cup ParkingInputs \cup SlotInputs
          \cup RegistryInputs \cup MinMaxInputs
          \cup BreakRegistryInputs \cup ParkingHelmInputs \cup PreferenceInputs

(***************************************************************************)
(* The solve.                                                              *)
(***************************************************************************)
\* core.py's __init__ assigns no `preferences` attribute, and objective.py
\* reads solver.preferences: on the object __init__ builds (hasPreferences =
\* FALSE) the lookup raises.  The object that carries the attribute
\* (hasPreferences = TRUE) is the one add_objective and solve() run on.
Init ==
    /\ data \in Inputs
    /\ hasPreferences \in BOOLEAN
    /\ pc = "START"
    /\ slot_minutes = 0
    /\ register_window = <<0, 0>>
    /\ roles = {}
    /\ x = {}
    /\ cons = {}
    /\ switches = {}
    /\ engine = NotCalled
    /\ realised = NoSchedule
    /\ result = NoResult

\* main(): the except branch
Fail(message) ==
    /\ pc' = "ERROR"
    /\ result' = ErrorResult(message)

\* __init__: time resolution, store policies, indices
Configure ==
    /\ pc = "START"
    /\ LET given == Get(store, "baseSlotMinutes", DefaultSlotMinutes)
       IN  IF SlotMinutesRejected(given)
           THEN /\ Fail(<<"Store baseSlotMinutes must be positive and divide 60", given>>)
                /\ UNCHANGED <<slot_minutes, register_window, roles>>
           ELSE /\ slot_minutes' = SlotMinutesValue(given)
                /\ register_window' = RegisterWindow(SlotMinutesValue(given))
                /\ roles' = IndexedRoles
                /\ pc' = "CONFIGURED"
                /\ UNCHANGED result
    /\ UNCHANGED <<data, hasPreferences, x, cons, switches, engine, realised>>

BuildDecisionVariables ==
    /\ pc = "CONFIGURED"
    /\ x' = DecisionVariables
    /\ pc' = "VARIABLES_BUILT"
    /\ UNCHANGED <<data, hasPreferences, slot_minutes, register_window, roles, cons,
                   switches, engine, realised, result>>

AddAllConstraints ==
    /\ pc = "VARIABLES_BUILT"
    /\ IF ConstraintError # NoError
       THEN Fail(ConstraintError) /\ UNCHANGED cons
       ELSE cons' = AllConstraints /\ pc' = "CONSTRAINED" /\ UNCHANGED result
    /\ UNCHANGED <<data, hasPreferences, slot_minutes, register_window, roles, x, switches,
                   engine, realised>>

AddObjective ==
    /\ pc = "CONSTRAINED"
    /\ IF ~hasPreferences
       THEN /\ Fail(<<"'LogbookSolver' object has no attribute 'preferences'">>)
            /\ UNCHANGED <<cons, switches>>
       ELSE /\ switches' = ObjectiveAuxVars
            /\ cons' = cons \cup ObjectiveConstraints
            /\ pc' = "BUILT"
            /\ UNCHANGED result
    /\ UNCHANGED <<data, hasPreferences, slot_minutes, register_window, roles, x, engine,
                   realised>>

\* solve(): what CpSolver.Solve can answer with max_time_in_seconds as the
\* only limit.  It proves a solution optimal (OPTIMAL), is stopped by the
\* time budget holding a solution (FEASIBLE) or holding none (UNKNOWN), or
\* proves there is no solution (INFEASIBLE).  Which solutions are optimal
\* depends on the objective's terms, which are not modelled: OPTIMAL is
\* allowed for every solution.
EngineResponses ==
    {[status |-> "OPTIMAL", values |-> v, expired |-> FALSE] : v \in Solutions}
    \cup {[status |-> "FEASIBLE", values |-> v, expired |-> TRUE] : v \in Solutions}
    \cup (IF Solutions = {}
          THEN {[status |-> "INFEASIBLE", values |-> {}, expired |-> FALSE]}
          ELSE {})
    \cup {[status |-> "UNKNOWN", values |-> {}, expired |-> TRUE]}

Solve ==
    /\ pc = "BUILT"
    /\ \E r \in EngineResponses :
          /\ engine' = r
          /\ result' = SolveResult(r.status, r.values)
          /\ pc' = IF r.status = "INFEASIBLE" THEN "INFEASIBLE" ELSE "SOLVED"
    /\ UNCHANGED <<data, hasPreferences, slot_minutes, register_window, roles, x, cons,
                   switches, realised>>

Next == Configure \/ BuildDecisionVariables \/ AddAllConstraints \/ AddObjective \/ Solve

Spec == Init /\ [][Next]_vars

\* the elements of a set in some order
RECURSIVE SeqOf(_)
SeqOf(S) ==
    IF S = {} THEN <<>>
    ELSE LET e == CHOOSE e \in S : TRUE
         IN  <<e>> \o SeqOf(S \ {e})

\* the requirement that pins a crew member's hours on a role to n slots
RealisedRequirement(id, role, n) ==
    IF n % slots_per_hour = 0
    THEN [crewId |-> id, role |-> role, requiredHours |-> n \div slots_per_hour]
    ELSE [crewId |-> id, role |-> role, requiredHours |-> n,
          requiredHoursPer |-> slots_per_hour]

\* crewRoleRequirements tightened to the hours a schedule realises for every
\* crew member and role
RealisedRequirements(v) ==
    SeqOf({RealisedRequirement(crew[i].id, r,
                               Cardinality({k \in v \cap x : k[1] = crew[i].id /\ k[3] = r})) :
             i \in 1 .. Len(crew), r \in roles})

\* the caller runs the solver again on the input with crewRoleRequirements
\* replaced by the hours of the schedule just returned
Tighten ==
    /\ pc = "SOLVED"
    /\ result.status \in {"OPTIMAL", "FEASIBLE"}
    /\ ~realised.tightened
    /\ data' = [crewRoleRequirements |-> RealisedRequirements(engine.values)] @@ data
    /\ realised' = [tightened |-> TRUE, values |-> engine.values \cap x]
    /\ pc' = "START"
    /\ slot_minutes' = 0
    /\ register_window' = <<0, 0>>
    /\ roles' = {}
    /\ x' = {}
    /\ cons' = {}
    /\ switches' = {}
    /\ engine' = NotCalled
    /\ result' = NoResult
    /\ UNCHANGED hasPreferences

RoundTripNext == Next \/ Tighten

RoundTripSpec == Init /\ [][RoundTripNext]_vars

\* a schedule was returned
Returned == pc = "SOLVED" /\ result.status \in {"OPTIMAL", "FEASIBLE"}

\* the returned schedule assigns the crew member the role in the slot
Assigned(id, slot, role) ==
    [crewId |-> id, taskType |-> role, startTime |-> slot * slot_minutes,
     endTime |-> (slot + 1) * slot_minutes] \in result.assignments

(***************************************************************************)
(* The properties of a returned schedule.                                  *)
(***************************************************************************)
\* the roles the returned schedule gives a crew member in a slot
RolesAt(id, slot) ==
    {a.taskType : a \in {a \in result.assignments :
                            a.crewId = id /\ a.startTime = slot * slot_minutes}}

\* the slots in which the returned schedule gives a crew member a role
SlotsOn(id, role) ==
    {a.startTime \div slot_minutes :
        a \in {a \in result.assignments : a.crewId = id /\ a.taskType = role}}

\* the number of crew the returned schedule assigns to a role in a slot
CountOn(role, slot) ==
    Cardinality({a \in result.assignments :
                    a.taskType = role /\ a.startTime = slot * slot_minutes})

\* the shift window of the time grid: floor of the start, ceil of the end,
\* clamped to the day
GridShiftSlots(c) ==
    (c.shiftStartMin \div slot_minutes)
        .. (Min(CeilDiv(c.shiftEndMin, slot_minutes), DayMinutes \div slot_minutes) - 1)

\* the slots of an hour
SlotsOfHour(h) == (h * (HourMinutes \div slot_minutes))
                    .. ((h + 1) * (HourMinutes \div slot_minutes) - 1)

C2_HourlyDemandPerSlot ==
    Returned => \A d \in HourlyDemands :
                    d.required > 0 =>
                        \A k \in SlotsOfHour(d.hour) : CountOn(d.role, k) = d.required

\* a schedule is returned for a demand of one crew member on a role while two
\* crew members hold a variable for the role in every slot of the hour
C2_Witness ==
    /\ Returned
    /\ \E d \in HourlyDemands :
          /\ d.required = 1
          /\ \A k \in SlotsOfHour(d.hour) :
                Cardinality(VarsOfSlotRole(k, d.role)) = 2 /\ CountOn(d.role, k) = 1

ClaimBreakWindow(s, e) ==
    (s + (BreakStartOffsetMinutes \div slot_minutes))
        .. Min(s + (BreakEndOffsetMinutes \div slot_minutes), e - 1)

C8_WindowCountPerSlot ==
    Returned => \A i \in 1 .. Len(coverage_windows) :
        LET w == coverage_windows[i]
        IN  \A h \in w.startHour .. (w.endHour - 1) : \A k \in SlotsOfHour(h) :
                CountOn(w.role, k) = w.requiredPerHour

\* a schedule is returned for a window that requires one of two eligible
\* crew members in each of its slots
C8_Witness ==
    /\ Returned
    /\ \E i \in 1 .. Len(coverage_windows) :
          /\ coverage_windows[i].requiredPerHour = 1
          /\ \A k \in SlotsOfHour(coverage_windows[i].startHour) :
                Cardinality(VarsOfSlotRole(k, coverage_windows[i].role)) = 2

GivenSlotMinutes == Get(store, "baseSlotMinutes", DefaultSlotMinutes)

\* the variables have been built
VariablesBuilt == pc \notin {"START", "CONFIGURED"} /\ slot_minutes > 0

\* a positive hourly demand with a slot of its hour in which no crew member
\* has a variable for the role
DemandWithoutCandidate ==
    \E d \in HourlyDemands :
        d.required > 0 /\ \E k \in SlotsOfHour(d.hour) : VarsOfSlotRole(k, d.role) = {}

\* a coverage window with a positive count and a slot in which no crew
\* member has a variable for the role
WindowWithoutCandidate ==
    \E i \in 1 .. Len(coverage_windows) :
        LET w == coverage_windows[i]
        IN  /\ w.requiredPerHour > 0
            /\ \E h \in w.startHour .. (w.endHour - 1) : \E k \in SlotsOfHour(h) :
                    VarsOfSlotRole(k, w.role) = {}

\* a per-crew requirement of a positive number of slots on a pair without
\* variables
RequirementWithoutCandidate ==
    \E i \in 1 .. Len(crew_role_requirements) :
        LET req == crew_role_requirements[i]
        IN  /\ req.requiredHours > 0
            /\ VarsOfCrewRole(req.crewId, req.role) = {}

\* a crew member that must break (shift of at least the minimum number of
\* slots) without a variable of the first declared break role in the break
\* window
BreakWithoutCandidate ==
    \E i \in 1 .. Len(crew) :
        LET c == crew[i]
            s == c.shiftStartMin \div slot_minutes
            e == c.shiftEndMin \div slot_minutes
        IN  /\ Get(c, "canBreak", TRUE)
            /\ e - s >= CeilDiv(MinShiftMinutesForBreak, slot_minutes)
            /\ ~\E k \in ClaimBreakWindow(s, e) : <<c.id, k, BreakRoles[1]>> \in x

\* one of the construction errors of the build
ConstructionError ==
    \/ DemandWithoutCandidate
    \/ WindowWithoutCandidate
    \/ RequirementWithoutCandidate
    \/ BreakWithoutCandidate

\* C11: a solve ends in ERROR only through a construction error (a rejected
\* slot length, a demand, window or requirement without a candidate variable,
\* a required break without a break variable) or an engine status of model
\* invalid: every other input, with or without preferences, reaches the
\* engine call.
C11_ErrorOnlyFromConstruction ==
    pc = "ERROR" =>
        \/ SlotMinutesRejected(GivenSlotMinutes)
        \/ VariablesBuilt /\ ConstructionError
        \/ engine.status = "MODEL_INVALID"

\* the build went past the constraint families
PastConstraints == pc \in {"CONSTRAINED", "BUILT", "SOLVED", "INFEASIBLE"}

\* C12: every construction error aborts the build before the engine is
\* called, and the output then has status ERROR, success = false, a single
\* message and no assignments.
C12_ConstructionErrorAborts ==
    /\ PastConstraints => ~ConstructionError
    /\ (pc = "ERROR" /\ VariablesBuilt /\ ConstructionError) =>
            /\ engine = NotCalled
            /\ result.status = "ERROR" /\ result.success = FALSE
            /\ Len(result.violations) = 1 /\ result.error = result.violations[1]
            /\ result.numAssignments = 0 /\ ~Has(result, "assignments")

\* C13: whenever the engine answers infeasible the result has status
\* INFEASIBLE, success = false, no assignments, numAssignments = 0 and a
\* non-empty violations list; the violations list is empty for OPTIMAL,
\* FEASIBLE and TIME_LIMIT results.
C13_InfeasibleResult ==
    /\ engine.status = "INFEASIBLE" =>
            /\ result.status = "INFEASIBLE" /\ result.success = FALSE
            /\ result.assignments = {} /\ result.numAssignments = 0
            /\ Len(result.violations) > 0
    /\ result.status \in {"OPTIMAL", "FEASIBLE", "TIME_LIMIT"} => result.violations = <<>>

\* the engine answered infeasible and no specific diagnostic applies: the
\* violations list holds the fallback message
C13_Witness ==
    /\ engine.status = "INFEASIBLE"
    /\ result.violations = <<GenericViolation>>

\* C15: construction rejects every slot length m that is non-positive
\* (m = 0 included) or does not divide 60, with status ERROR; it accepts the
\* positive divisors of 60, and then S = 1440 / m and slots-per-hour = 60 / m.
C15_SlotLengthValidated ==
    pc # "START" =>
        LET m == GivenSlotMinutes
        IN  IF m <= 0 \/ HourMinutes % Max(m, 1) # 0
            THEN pc = "ERROR" /\ result.status = "ERROR" /\ slot_minutes = 0
            ELSE /\ slot_minutes = m
                 /\ num_slots * m = DayMinutes
                 /\ slots_per_hour * m = HourMinutes

C17_OneRecordPerVariable ==
    Returned =>
        /\ \A k \in x :
              k \in engine.values <=>
                  [crewId |-> k[1], taskType |-> k[3], startTime |-> k[2] * slot_minutes,
                   endTime |-> (k[2] + 1) * slot_minutes] \in result.assignments
        /\ \A a \in result.assignments :
              /\ a.startTime % slot_minutes = 0
              /\ a.endTime = a.startTime + slot_minutes
              /\ <<a.crewId, a.startTime \div slot_minutes, a.taskType>> \in engine.values \cap x
        /\ result.numAssignments = Cardinality(result.assignments)

\* a returned schedule keeps a crew member on one role in two adjacent slots
C17_Witness ==
    /\ Returned
    /\ \E a \in result.assignments : \E b \in result.assignments :
          a.crewId = b.crewId /\ a.taskType = b.taskType /\ b.startTime = a.endTime

\* the solve has ended
Ended == pc \in {"SOLVED", "INFEASIBLE", "ERROR"}

\* the least number of crew with a variable for the role over the slots of
\* the demand's hour
MinCandidates(d) ==
    LET counts == {Cardinality(VarsOfSlotRole(k, d.role)) : k \in SlotsOfHour(d.hour)}
    IN  CHOOSE a \in counts : \A b \in counts : a <= b

\* the hourly entries of the violations list for an hour and a role
HourlyEntries(hour, role) ==
    {i \in 1 .. Len(result.violations) :
        /\ Len(result.violations[i]) = 5
        /\ result.violations[i][1] = "hourly"
        /\ result.violations[i][2] = hour
        /\ result.violations[i][3] = role}

\* C14: when an hourly demand of q has a least candidate count a with
\* 0 < a < q, the solve ends with status INFEASIBLE (not ERROR) and the
\* violations list holds one entry for the hour and role, stating q and a;
\* no hourly entry is emitted for a demand whose every slot has q candidates.
C14_ShortDemandIsInfeasible ==
    (Ended /\ VariablesBuilt) =>
        \A d \in HourlyDemands :
            /\ (d.required > 0 /\ 0 < MinCandidates(d) /\ MinCandidates(d) < d.required) =>
                    /\ result.status = "INFEASIBLE"
                    /\ Cardinality(HourlyEntries(d.hour, d.role)) = 1
                    /\ \A i \in HourlyEntries(d.hour, d.role) :
                          result.violations[i]
                              = <<"hourly", d.hour, d.role, d.required, MinCandidates(d)>>
            /\ (result.status = "INFEASIBLE" /\ MinCandidates(d) >= d.required) =>
                    HourlyEntries(d.hour, d.role) = {}

ObservedRoles ==
    DefaultUniversalRoles
    \cup UNION {CrewRoles(crew[i]) : i \in 1 .. Len(crew)}
    \cup {role_metadata[i].role : i \in {i \in 1 .. Len(role_metadata) :
                                            Has(role_metadata[i], "role")}}
    \cup {d.role : d \in HourlyDemands}
    \cup {crew_role_requirements[i].role : i \in 1 .. Len(crew_role_requirements)}
    \cup {coverage_windows[i].role : i \in 1 .. Len(coverage_windows)}
    \cup {Get(data, "preferences", <<>>)[i].role :
            i \in {i \in 1 .. Len(Get(data, "preferences", <<>>)) :
                     Has(Get(data, "preferences", <<>>)[i], "role")}}

\* the four legality conditions of a triple
LegalByRule(c, k, r) ==
    /\ k \in GridShiftSlots(c)
    /\ IsUniversalRole(r) \/ r \in CrewRoles(c)
    /\ SlotInsideStoreHours(k) \/ RoleAllowsOutsideHours(r)
    /\ r = "REGISTER" => SlotInsideRegisterWindow(k)

\* C19: the variable builder creates x[c,k,r] if and only if the slot lies in
\* the crew member's shift window, the role is universal or in the crew
\* member's eligibility, the slot is within store hours or the role allows
\* outside hours, and a REGISTER slot is within the register sub-window; no
\* variable exists for any other triple.
C19_VariableIffLegal ==
    VariablesBuilt =>
        /\ \A i \in 1 .. Len(crew) : \A k \in 0 .. (num_slots - 1) : \A r \in ObservedRoles :
              LegalByRule(crew[i], k, r) <=> <<crew[i].id, k, r>> \in x
        /\ \A key \in x :
              /\ key[3] \in ObservedRoles
              /\ \E i \in 1 .. Len(crew) : crew[i].id = key[1]

\* C20: the active role set is the union of the role codes observed anywhere
\* in the input, and so a role flagged isUniversal in roleMetadata has a
\* variable in every legal slot of every crew member, also when no crew
\* member lists it.
C20_ActiveRolesAreObservedRoles ==
    VariablesBuilt =>
        /\ roles = ObservedRoles
        /\ \A r \in ObservedRoles :
              (HasMeta(r) /\ Get(RoleMeta(r), "isUniversal", FALSE) = TRUE) =>
                  \A i \in 1 .. Len(crew) : \A k \in GridShiftSlots(crew[i]) :
                      (SlotInsideStoreHours(k) \/ RoleAllowsOutsideHours(r)) =>
                          <<crew[i].id, k, r>> \in x

ClaimMinima(c, r) ==
    (IF Has(RoleMeta(r), "minSlots") THEN {RoleMeta(r).minSlots}
     ELSE IF Has(RoleMeta(r), "minMinutesPerCrew")
          THEN {CeilDiv(RoleMeta(r).minMinutesPerCrew, slot_minutes)} ELSE {})
    \cup (IF r = "REGISTER" /\ Has(c, "minRegisterHours")
          THEN {CeilDiv(c.minRegisterHours * slots_per_hour, Get(c, "minRegisterHoursPer", 1))}
          ELSE {})

ClaimMaxima(c, r) ==
    (IF Has(RoleMeta(r), "maxSlots") THEN {RoleMeta(r).maxSlots}
     ELSE IF Has(RoleMeta(r), "maxMinutesPerCrew")
          THEN {RoleMeta(r).maxMinutesPerCrew \div slot_minutes} ELSE {})
    \cup (IF r = "REGISTER" /\ Has(c, "maxRegisterHours")
          THEN {(c.maxRegisterHours * slots_per_hour) \div Get(c, "maxRegisterHoursPer", 1)}
          ELSE {})

\* C22: for every crew member and every non-break role with T > 0 variables,
\* every returned schedule assigns the role in at least min(effective_min, T)
\* slots, effective_min the largest defined minimum, and in at most
\* min(effective_max, T) slots, effective_max the smallest defined maximum;
\* an undefined bound imposes nothing.
C22_RoleMinMaxRespected ==
    Returned => \A i \in 1 .. Len(crew) : \A r \in ObservedRoles :
        LET c == crew[i]
            T == Cardinality(VarsOfCrewRole(c.id, r))
            n == Cardinality(SlotsOn(c.id, r))
        IN  (~IsBreakRole(r) /\ T > 0) =>
                /\ \A lo \in ClaimMinima(c, r) :
                      (\A other \in ClaimMinima(c, r) : other <= lo) => n >= Min(lo, T)
                /\ \A hi \in ClaimMaxima(c, r) :
                      (\A other \in ClaimMaxima(c, r) : other >= hi) => n <= Min(hi, T)

\* a returned schedule meets a minimum of two slots on a role exactly, and
\* one meets a minimum that was clamped to the number of variables
C22_Witness ==
    /\ Returned
    /\ \E i \in 1 .. Len(crew) : \E r \in roles :
          /\ ~IsBreakRole(r)
          /\ \E lo \in ClaimMinima(crew[i], r) :
                lo >= 2 /\ Cardinality(SlotsOn(crew[i].id, r))
                              = Min(lo, Cardinality(VarsOfCrewRole(crew[i].id, r)))

C23_FamiliesUseBuilderWindow ==
    PastConstraints => \A c \in CrewSet :
        /\ ShiftSlots(c) = Range(BuilderShiftStartSlot(c), BuilderShiftEndSlot(c))
        /\ \A k \in x : k[1] = c.id => k[2] \in ShiftSlots(c)

LegacySlotMinutes == 30

half_hour_roles == {"PRODUCT", "PARKING_HELM", "MEAL_BREAK"}

LegacyHourSnap(c, role) ==
    LET shift_start_slot == c.shiftStartMin \div LegacySlotMinutes
        shift_end_slot == c.shiftEndMin \div LegacySlotMinutes
        first_hour_index == shift_start_slot \div 2
        last_hour_index == (shift_end_slot - 1) \div 2
    IN  IF role \in half_hour_roles THEN {}
        ELSE {Same(<<c.id, hour * 2, role>>, <<c.id, hour * 2 + 1, role>>) :
                hour \in {hour \in first_hour_index .. last_hour_index :
                            /\ ~(hour * 2 < shift_start_slot \/ hour * 2 + 1 >= shift_end_slot)
                            /\ <<c.id, hour * 2, role>> \in x
                            /\ <<c.id, hour * 2 + 1, role>> \in x}}

\* the pairs of variables a set of equalities equates
Equated(equalities) == {e.pos \cup e.neg : e \in equalities}

\* the equalities _block_size_snap adds for a crew member and a role
BlockSnapOf(c, role) ==
    UNION {BlockEqualities(c, role, s, BlockSize(role)) : s \in BlockStarts(c, BlockSize(role))}

\* C26: for a role with blockSize N = slots-per-hour (an hour-long role of the
\* legacy solver) and a crew member whose shift starts on an hour boundary,
\* the block-size snap and the legacy hour-long snap equate the same pairs of
\* the crew member's variables of the role.
C26_BlockSnapIsLegacyHourSnap ==
    (PastConstraints /\ slot_minutes = LegacySlotMinutes) =>
        \A c \in CrewSet : \A role \in roles \ half_hour_roles :
            (BlockSize(role) = slots_per_hour /\ c.shiftStartMin % HourMinutes = 0)
                => Equated(BlockSnapOf(c, role)) = Equated(LegacyHourSnap(c, role))

\* both snaps equate a pair of slots of some hour of a shift of three slots
C26_Witness ==
    /\ PastConstraints /\ slot_minutes = LegacySlotMinutes
    /\ \E c \in CrewSet : \E role \in roles \ half_hour_roles :
          /\ BlockSize(role) = slots_per_hour /\ c.shiftStartMin % HourMinutes = 0
          /\ ShiftEndSlot(c) - ShiftStartSlot(c) >= 3
          /\ LegacyHourSnap(c, role) # {}
          /\ BlockSnapOf(c, role) \subseteq cons

(***************************************************************************)
(* Soft preferences.                                                       *)
(***************************************************************************)
\* the assignments of x that satisfy the constraint families alone, which
\* read neither the preferences array nor the isConsecutive flags
HardSolutions ==
    LET within(keys) == {c \in AllConstraints : (c.pos \cup c.neg) \subseteq keys}
        slot(keys) == {v \in SUBSET keys : \A c \in within(keys) : Holds(c, v)}
        parts == {slot({k \in x : k[1] = cs[1] /\ k[2] = cs[2]}) :
                    cs \in {<<k[1], k[2]>> : k \in x}}
    IN  {v \in Product(parts) : \A c \in AllConstraints : Holds(c, v)}

\* C27: soft preferences never change feasibility: the x-assignments that
\* satisfy the model built with the preferences array and the isConsecutive
\* flags are the x-assignments that satisfy the model without them.
C27_PreferencesKeepFeasibility ==
    pc = "BUILT" => {v \cap x : v \in Solutions} = HardSolutions

\* a model with auxiliary variables admits an assignment that switches role
C27_Witness ==
    /\ pc = "BUILT"
    /\ \E a \in switches : \E v \in Solutions :
          (<<a[2], a[3], a[4]>> \in v) # (<<a[2], a[3] + 1, a[4]>> \in v)

UnsatisfiableEquality(candidates, q) ==
    /\ Cardinality(candidates) < q
    /\ \E c \in cons : c.op = "eq" /\ c.neg = {} /\ c.pos = candidates /\ c.rhs = q

\* the violation names an equality of the model that no assignment satisfies
NamesUnsatisfiable(v) ==
    CASE v[1] = "hourly" ->
            \E k \in SlotsOfHour(v[2]) :
                /\ Cardinality(VarsOfSlotRole(k, v[3])) = v[5]
                /\ UnsatisfiableEquality(VarsOfSlotRole(k, v[3]), v[4])
      [] v[1] = "crew hours" ->
            \E i \in 1 .. Len(crew) :
                /\ crew[i].name = v[2]
                /\ Cardinality(VarsOfCrewRole(crew[i].id, v[3])) = v[6]
                /\ UnsatisfiableEquality(VarsOfCrewRole(crew[i].id, v[3]), v[5])
      [] v[1] = "coverage" -> UnsatisfiableEquality(VarsOfSlotRole(v[4], v[2]), v[5])
      [] v[1] = "meal break" -> UnsatisfiableEquality({}, 1)
      [] OTHER -> FALSE

\* one of the four checks of the diagnostics fails
SomeCheckFails ==
    \/ \E d \in HourlyDemands : d.required > 0 /\ MinCandidates(d) < d.required
    \/ \E i \in 1 .. Len(crew_role_requirements) :
          LET req == crew_role_requirements[i]
          IN  Cardinality(VarsOfCrewRole(req.crewId, req.role)) * Get(req, "requiredHoursPer", 1)
                  < req.requiredHours * (HourMinutes \div slot_minutes)
    \/ \E i \in 1 .. Len(coverage_windows) :
          LET w == coverage_windows[i]
          IN  \E h \in w.startHour .. (w.endHour - 1) : \E k \in SlotsOfHour(h) :
                  Cardinality(VarsOfSlotRole(k, w.role)) < w.requiredPerHour
    \/ BreakWithoutCandidate /\ BreakRoles[1] \in roles

\* C29: diagnostics are sound: every specific violation names a hard
\* constraint no assignment can satisfy (an equality over fewer candidates
\* than its count), and the generic message is returned exactly when none of
\* the four checks fails.
C29_DiagnosticsSound ==
    pc = "INFEASIBLE" =>
        /\ \A n \in 1 .. Len(result.violations) :
              result.violations[n] # GenericViolation => NamesUnsatisfiable(result.violations[n])
        /\ (result.violations = <<GenericViolation>>) <=> ~SomeCheckFails

\* the diagnostics ran and returned a specific violation
C29_Witness ==
    /\ pc = "INFEASIBLE"
    /\ \E n \in 1 .. Len(result.violations) :
          /\ result.violations[n] # GenericViolation
          /\ NamesUnsatisfiable(result.violations[n])

====
